---- MODULE Spec2Model ----
(***************************************************************************)
(* Model of the MetaCoordinator of Cognosis (src/ai/agents/                *)
(* meta_coordinator.py): the workflow executor (execute_workflow) and the  *)
(* task orchestration engine (route_task, execute_task, _call_agent,       *)
(* _synthesize_results).                                                   *)
(*                                                                         *)
(* Python values are modelled as strings; a mapping is a function over a   *)
(* fixed key set whose absent keys hold the value Absent.  A coroutine     *)
(* runs atomically from one suspension point (await of an agent handle or  *)
(* of the text-generation backend) to the next, as asyncio schedules it.   *)
(***************************************************************************)
EXTENDS Integers, Sequences, FiniteSets, TLC

\* ------------------------------------------------------------------ bounds
\* longest workflow template supplied by the template source
MaxSteps == 3
\* longest agents list of a routing plan
MaxAgents == 3

\* ------------------------------------------------------------ basic values
\* marks a key that a mapping does not hold / a field that a dict lacks
Absent == "<absent>"
\* marks a step dict without its "order" key (orders are integers >= 0)
NoOrder == 0 - 1

SeqsUpTo(S, n) == UNION { [1..k -> S] : k \in 0..n }

\* ============================ the agent registry =========================
\* the registry main.py builds
MainRegistry == {"experiment_conductor", "data_analyst", "rv_expert"}

\* ============================ workflow executor ==========================
DataKeys == {"session_id", "experiment_type", "target_hash", "target_type",
             "score", "scored_at", "commitment_hash",
             "message", "next_action", "metadata"}

\* the empty mapping {}
EmptyData == [k \in DataKeys |-> Absent]

\* dict.update: keys of upd overwrite, no key is removed
Update(data, upd) == [k \in DataKeys |-> IF upd[k] # Absent THEN upd[k] ELSE data[k]]

\* truthiness of a mapping: non-empty
Truthy(data) == \E k \in DataKeys : data[k] # Absent

\* initial_data values a caller passes (None is the empty mapping here:
\* "initial_data or {}" treats both alike)
InitialDatas ==
    { EmptyData,
      [EmptyData EXCEPT !["session_id"] = "s1",
                        !["experiment_type"] = "card-prediction",
                        !["target_hash"] = "caller_hash"] }

\* readings of time.time() that end up in result strings
Clock == {"t1", "t2"}

\* the steps the template source can supply
StepPool ==
    { [order |-> 0, name |-> "Introduction", stepType |-> "participant_guidance", agentId |-> "experiment_conductor"],
      [order |-> 1, name |-> "Guide", stepType |-> "participant_guidance", agentId |-> Absent],
      [order |-> 1, name |-> "GhostGuide", stepType |-> "participant_guidance", agentId |-> "ghost"],
      [order |-> 2, name |-> "AnalystGuide", stepType |-> "participant_guidance", agentId |-> "data_analyst"],
      [order |-> 0, name |-> "Target", stepType |-> "target_generation", agentId |-> Absent],
      [order |-> 2, name |-> "Capture", stepType |-> "data_capture", agentId |-> Absent],
      [order |-> 3, name |-> "Score", stepType |-> "ai_scoring", agentId |-> Absent],
      [order |-> 4, name |-> "Commit", stepType |-> "blockchain_commit", agentId |-> Absent],
      [order |-> 1, name |-> "Mystery", stepType |-> "unknown_x", agentId |-> Absent],
      [order |-> 2, name |-> "NoType", stepType |-> Absent, agentId |-> Absent],
      [order |-> NoOrder, name |-> "NoOrder", stepType |-> "ai_scoring", agentId |-> Absent],
      [order |-> 3, name |-> Absent, stepType |-> "data_capture", agentId |-> Absent] }

Templates == SeqsUpTo(StepPool, MaxSteps)

\* a handler result without output_data
PlainResult(s) == [status |-> s, guidance |-> Absent, output_data |-> EmptyData]

\* the placeholder in the result field of an error log entry (the entry has
\* no "result" key)
NoResult == PlainResult(Absent)

_execute_target_generation(clk) ==
    [status |-> "completed", guidance |-> Absent,
     output_data |-> [EmptyData EXCEPT !["target_hash"] = "mock_hash_" \o clk,
                                       !["target_type"] = "image"]]

_execute_data_capture == PlainResult("waiting_for_input")

_execute_ai_scoring ==
    [status |-> "completed", guidance |-> Absent,
     output_data |-> [EmptyData EXCEPT !["score"] = "0.75", !["scored_at"] = "iso_time"]]

_execute_blockchain_commit(clk) ==
    [status |-> "completed", guidance |-> Absent,
     output_data |-> [EmptyData EXCEPT !["commitment_hash"] = "mock_commitment_" \o clk]]

\* ExperimentConductor._get_next_action
_get_next_action(experiment_type, current) ==
    LET workflow ==
          IF experiment_type = "remote-viewing-images"
            THEN <<"ideogram_capture", "sketch_response", "description_capture", "target_reveal", "self_assessment">>
          ELSE IF experiment_type = "telepathy-emotions"
            THEN <<"emotion_selection", "body_mapping", "confidence_rating", "target_reveal", "accuracy_check">>
          ELSE IF experiment_type = "card-prediction"
            THEN <<"prediction_entry", "commitment", "card_reveal", "accuracy_check", "next_round">>
          ELSE <<>>
    IN IF current < Len(workflow) THEN workflow[current + 1] ELSE "experiment_complete"

\* ExperimentConductor.provide_guidance: the guidance mapping it returns
provide_guidance(experiment_type, current) ==
    [EmptyData EXCEPT !["message"] = "guidance_text",
                      !["next_action"] = _get_next_action(experiment_type, current),
                      !["metadata"] = "guidance_metadata"]

\* a guidance handler for which an unregistered agent is a fault
_execute_guidance_stepMutNotFoundRaises(step, agent_id, registry, data) ==
    IF agent_id \in registry
      THEN IF agent_id = "experiment_conductor"
             THEN LET guidance == provide_guidance(
                         IF data["experiment_type"] # Absent THEN data["experiment_type"] ELSE "unknown",
                         step.order)
                  IN [raised |-> FALSE,
                      result |-> [status |-> "completed", guidance |-> guidance["message"],
                                  output_data |-> guidance]]
             ELSE [raised |-> TRUE, result |-> NoResult]
      ELSE [raised |-> TRUE, result |-> NoResult]

\* The outcome of one handler call: [raised, result].
\* _execute_guidance_step: an agent absent from the registry gives
\* agent_not_found; a registered agent other than the ExperimentConductor has
\* no provide_guidance attribute, so the call raises AttributeError.
_execute_guidance_step(step, agent_id, registry, data) ==
    IF agent_id \in registry
      THEN IF agent_id = "experiment_conductor"
             THEN LET guidance == provide_guidance(
                         IF data["experiment_type"] # Absent THEN data["experiment_type"] ELSE "unknown",
                         step.order)
                  IN [raised |-> FALSE,
                      result |-> [status |-> "completed", guidance |-> guidance["message"],
                                  output_data |-> guidance]]
             ELSE [raised |-> TRUE, result |-> NoResult]
      ELSE [raised |-> FALSE, result |-> PlainResult("agent_not_found")]

\* a dispatch in which a stepType without a handler is a fault
DispatchMutUnknownRaises(step, registry, data, clk) ==
    IF step.stepType = Absent
      THEN [raised |-> TRUE, result |-> NoResult, invoked |-> FALSE]
    ELSE IF step.stepType = "target_generation"
      THEN [raised |-> FALSE, result |-> _execute_target_generation(clk), invoked |-> TRUE]
    ELSE IF step.stepType = "participant_guidance"
      THEN LET agent_id == IF step.agentId # Absent THEN step.agentId ELSE "experiment_conductor"
               r == _execute_guidance_step(step, agent_id, registry, data)
           IN [raised |-> r.raised, result |-> r.result, invoked |-> TRUE]
    ELSE IF step.stepType = "data_capture"
      THEN [raised |-> FALSE, result |-> _execute_data_capture, invoked |-> TRUE]
    ELSE IF step.stepType = "ai_scoring"
      THEN [raised |-> FALSE, result |-> _execute_ai_scoring, invoked |-> TRUE]
    ELSE IF step.stepType = "blockchain_commit"
      THEN [raised |-> FALSE, result |-> _execute_blockchain_commit(clk), invoked |-> TRUE]
    ELSE [raised |-> TRUE, result |-> NoResult, invoked |-> FALSE]

\* the dispatch of lines 354-376: [raised, result, invoked]; a step without
\* its stepType key raises KeyError before any handler is called
Dispatch(step, registry, data, clk) ==
    IF step.stepType = Absent
      THEN [raised |-> TRUE, result |-> NoResult, invoked |-> FALSE]
    ELSE IF step.stepType = "target_generation"
      THEN [raised |-> FALSE, result |-> _execute_target_generation(clk), invoked |-> TRUE]
    ELSE IF step.stepType = "participant_guidance"
      THEN LET agent_id == IF step.agentId # Absent THEN step.agentId ELSE "experiment_conductor"
               r == _execute_guidance_step(step, agent_id, registry, data)
           IN [raised |-> r.raised, result |-> r.result, invoked |-> TRUE]
    ELSE IF step.stepType = "data_capture"
      THEN [raised |-> FALSE, result |-> _execute_data_capture, invoked |-> TRUE]
    ELSE IF step.stepType = "ai_scoring"
      THEN [raised |-> FALSE, result |-> _execute_ai_scoring, invoked |-> TRUE]
    ELSE IF step.stepType = "blockchain_commit"
      THEN [raised |-> FALSE, result |-> _execute_blockchain_commit(clk), invoked |-> TRUE]
    ELSE [raised |-> FALSE, result |-> [PlainResult("skipped") EXCEPT !.guidance = "unknown_step_type"],
          invoked |-> FALSE]


\* One iteration of the for loop of execute_workflow, lines 349-401:
\* kind "ok" (handler returned and the step was logged), "error" (a fault
\* inside the try block was caught and logged) or "propagate" (building the
\* log entry raised KeyError on step["order"] or step["name"]: on the success
\* path that fault is caught, and the except clause raises it again while it
\* builds the error entry, so it leaves execute_workflow).
StepOutcome(step, registry, data, clk) ==
    LET d == Dispatch(step, registry, data, clk)
    IN IF step.order = NoOrder \/ step.name = Absent
         THEN [kind |-> "propagate", result |-> NoResult, invoked |-> d.invoked]
       ELSE IF d.raised
         THEN [kind |-> "error", result |-> NoResult, invoked |-> d.invoked]
       ELSE [kind |-> "ok", result |-> d.result, invoked |-> d.invoked]

\* the entry appended at lines 379-386 (success) or 395-400 (error)
LogEntry(step, outcome) ==
    IF outcome.kind = "ok"
      THEN [step_order |-> step.order, step_name |-> step.name, step_type |-> step.stepType,
            result |-> outcome.result, error |-> Absent]
      ELSE [step_order |-> step.order, step_name |-> step.name, step_type |-> Absent,
            result |-> NoResult, error |-> "fault"]

\* a loop that logs the steps that returned and drops the one that raised
LogAfterMutDropsErrors(log, step, outcome) ==
    IF outcome.kind = "ok" THEN Append(log, LogEntry(step, outcome)) ELSE log

LogAfter(log, step, outcome) ==
    IF outcome.kind = "propagate" THEN log ELSE Append(log, LogEntry(step, outcome))

\* a merge that keeps the value a key already has (setdefault, not update)
DataAfterMutKeepsOld(data, outcome) ==
    IF outcome.kind = "ok" /\ Truthy(outcome.result.output_data)
      THEN Update(outcome.result.output_data, data)
      ELSE data

\* lines 389-390: merge output_data when the result carries a non-empty one
DataAfter(data, outcome) ==
    IF outcome.kind = "ok" /\ Truthy(outcome.result.output_data)
      THEN Update(data, outcome.result.output_data)
      ELSE data

\* line 392: only a step that was logged as a success is counted
CountAfterMutCountsFault(n, outcome) == IF outcome.kind \in {"ok", "error"} THEN n + 1 ELSE n

CountAfter(n, outcome) == IF outcome.kind = "ok" THEN n + 1 ELSE n

\* line 401: the loop goes on after a success and breaks on a caught fault
ContinuesMutNoBreak(outcome) == outcome.kind \in {"ok", "error"}

Continues(outcome) == outcome.kind = "ok"

\* line 408
WorkflowStatusMutOffByOne(done, total) == IF done + 1 >= total THEN "completed" ELSE "failed"

WorkflowStatus(done, total) == IF done = total THEN "completed" ELSE "failed"

\* the result object of lines 405-414 (template_id, user_id and duration_ms
\* are echoes of the inputs and of the clock and are left out)
WorkflowRunResult(done, steps, log, data) ==
    [status |-> WorkflowStatus(done, Len(steps)),
     steps_completed |-> done,
     total_steps |-> Len(steps),
     execution_log |-> log,
     collected_data |-> data]

NoRunResult ==
    [status |-> Absent, steps_completed |-> 0, total_steps |-> 0,
     execution_log |-> <<>>, collected_data |-> EmptyData]

\* ======================= task orchestration engine =======================
\* agent names a routing plan can carry
PlanAgentNames == {"experiment_conductor", "data_analyst", "rv_expert"}

\* the registry's key order, as ', '.join(self.agents.keys()) prints it
AgentOrder == <<"experiment_conductor", "data_analyst", "rv_expert">>

\* registries a MetaCoordinator is constructed with: the one of main.py,
\* one without rv_expert, one without the ExperimentConductor
TaskRegistries ==
    { MainRegistry, {"experiment_conductor", "data_analyst"}, {"data_analyst"} }

\* task texts of callers
Tasks == {"how did I do"}

CtxKeys == {"experiment_type", "previous_agent_output"}

\* the empty context (None and {} behave alike in every use of context)
EmptyCtx == [k \in CtxKeys |-> Absent]

\* contexts of callers
Contexts == { EmptyCtx, [EmptyCtx EXCEPT !["previous_agent_output"] = "stale"] }

\* json.dumps(context) if context else 'None'
CtxJson(ctx) ==
    IF \A k \in CtxKeys : ctx[k] = Absent THEN "None"
    ELSE "{" \o (IF ctx["experiment_type"] # Absent
                   THEN "experiment_type: " \o ctx["experiment_type"] \o ";" ELSE "")
             \o (IF ctx["previous_agent_output"] # Absent
                   THEN "previous_agent_output: " \o ctx["previous_agent_output"] \o ";" ELSE "")
             \o "}"

RECURSIVE JoinNames(_, _)
JoinNames(registry, i) ==
    IF i > Len(AgentOrder) THEN ""
    ELSE (IF AgentOrder[i] \in registry THEN AgentOrder[i] \o ", " ELSE "")
         \o JoinNames(registry, i + 1)

\* the routing prompt of lines 90-98: the task embedded in the request text
RoutingPrompt(t, ctx, registry) ==
    "Analyze this task and determine which agent(s) should handle it: TASK: " \o t
    \o " CONTEXT: " \o CtxJson(ctx)
    \o " Available agents: " \o JoinNames(registry, 1)

\* ---- routing plans
NoRouting == [n \in PlanAgentNames |-> Absent]

\* routing maps of a backend plan: none, one for the conductor only, one
\* entry per agent
Routings ==
    { NoRouting,
      [NoRouting EXCEPT !["experiment_conductor"] = "sub-task for experiment_conductor"],
      [n \in PlanAgentNames |-> "sub-task for " \o n] }

\* strategies a backend plan can carry; Absent is a plan without the key
Strategies == {"single", "parallel", "sequential", "iterative", Absent}

NoPlan == [is_object |-> FALSE, strategy |-> Absent, agents |-> <<>>, routing |-> NoRouting]

\* what the backend's content parses to: not JSON at all, no text (a None
\* content, on which json.loads raises TypeError), JSON that is no object (a
\* list, a number), or an object with the plan's keys
RouteContents ==
    [kind : {"not_json"}, plan : {NoPlan}]
    \cup [kind : {"null"}, plan : {NoPlan}]
    \cup [kind : {"non_object"}, plan : {NoPlan}]
    \cup [kind : {"object"},
          plan : [is_object : {TRUE}, strategy : Strategies,
                  agents : SeqsUpTo(PlanAgentNames, MaxAgents), routing : Routings]]

\* the default plan of lines 113-117
DefaultPlan(t, routing_prompt) ==
    [is_object |-> TRUE, strategy |-> "single", agents |-> <<"experiment_conductor">>,
     routing |-> [NoRouting EXCEPT !["experiment_conductor"] = routing_prompt]]

\* lines 109-119: json.loads of the content, the default plan on
\* JSONDecodeError
ParsePlan(content, t, routing_prompt) ==
    IF content.kind = "not_json" THEN DefaultPlan(t, routing_prompt)
    ELSE content.plan

\* ---- agent results
NoAgentResult == [response |-> Absent, error |-> Absent, agent |-> Absent]

NotFoundResult(name) ==
    [response |-> "Agent '" \o name \o "' not available", error |-> "agent_not_found", agent |-> Absent]

PendingResult(name) ==
    [response |-> "DataAnalyst integration pending for this task type", error |-> Absent, agent |-> name]

UnknownInterfaceResult(name) ==
    [response |-> "Unknown agent interface: " \o name, error |-> "unknown_interface", agent |-> Absent]

\* what the conductor handle's chat returns: an answer, an empty answer, or
\* the error mapping its own except clause builds
ChatResults ==
    { [response |-> "conductor answer", error |-> Absent, agent |-> Absent],
      [response |-> "", error |-> Absent, agent |-> Absent],
      [response |-> "I apologize, but I encountered an error. Please try again or contact support if this persists.",
       error |-> "llm failure", agent |-> Absent] }

\* _call_agent without the registry check of lines 243-247
_call_agentMutNoRegistryCheck(registry, name) ==
    IF name = "experiment_conductor"
      THEN [suspends |-> TRUE, result |-> NoAgentResult]
    ELSE IF name = "data_analyst"
      THEN [suspends |-> FALSE, result |-> PendingResult(name)]
    ELSE [suspends |-> FALSE, result |-> UnknownInterfaceResult(name)]

\* _call_agent, lines 243-273: it suspends in agent.chat for the
\* experiment_conductor only, and returns at once otherwise
_call_agent(registry, name) ==
    IF name \notin registry
      THEN [suspends |-> FALSE, result |-> NotFoundResult(name)]
    ELSE IF name = "experiment_conductor"
      THEN [suspends |-> TRUE, result |-> NoAgentResult]
    ELSE IF name = "data_analyst"
      THEN [suspends |-> FALSE, result |-> PendingResult(name)]
    ELSE [suspends |-> FALSE, result |-> UnknownInterfaceResult(name)]

\* ---- agent_results: a dict in insertion order, as a sequence of entries
DictHas(d, name) == \E i \in 1..Len(d) : d[i].name = name

\* d[name] = result: a present key keeps its place and takes the new value
DictSet(d, name, result) ==
    IF DictHas(d, name)
      THEN [i \in 1..Len(d) |-> IF d[i].name = name THEN [name |-> name, result |-> result] ELSE d[i]]
      ELSE Append(d, [name |-> name, result |-> result])

DictGet(d, name) == (CHOOSE i \in 1..Len(d) : d[i].name = name)

\* agent_tasks.get(agent_name, task)
AgentTask(plan, name, t) == IF plan.routing[name] # Absent THEN plan.routing[name] ELSE t

\* ---- outcomes
Apology == "I encountered an error coordinating this task. Please try again."

NoOutcome ==
    [keys |-> {}, response |-> Absent, strategy |-> Absent, error |-> Absent,
     agents_used |-> <<>>, agent_results |-> <<>>]

\* lines 227-232
ErrorOutcome(detail) ==
    [keys |-> {"response", "error", "strategy"},
     response |-> Apology, strategy |-> "error", error |-> detail,
     agents_used |-> <<>>, agent_results |-> <<>>]

\* lines 218-225 (duration_ms and coordinated_at are clock readings)
CoordinationOutcome(response, strategy, agents_to_use, results) ==
    [keys |-> {"response", "strategy", "agents_used", "agent_results", "duration_ms", "coordinated_at"},
     response |-> response, strategy |-> strategy, error |-> Absent,
     agents_used |-> agents_to_use, agent_results |-> results]

\* "**name**: response" of every entry, joined (lines 293-296)
RECURSIVE AgentResponses(_, _)
AgentResponses(results, i) ==
    IF i > Len(results) THEN ""
    ELSE "**" \o results[i].name \o "**: " \o results[i].result.response
         \o (IF i < Len(results) THEN "\n\n" ELSE "")
         \o AgentResponses(results, i + 1)

\* the synthesis prompt of lines 298-311
SynthesisPrompt(t, results) ==
    "Synthesize these agent responses: ORIGINAL TASK: " \o t
    \o " AGENT RESPONSES: " \o AgentResponses(results, 1)

\* what the backend returns for a synthesis request
SynthContents == {"synthesized answer", ""}

\* ---- execute_task, as transformations of the coroutine's state
\* X: [pc, calls, agent_results, previous_output, seq_i, llm_calls,
\*     completion_order, outcome, total]
\* R: the run's inputs [task, context, plan, registry]

\* routing_plan.get("strategy", "single")
StrategyOf(plan) == IF plan.strategy = Absent THEN "single" ELSE plan.strategy

\* a _call_agent coroutine begins to run: it returns at once, or suspends in
\* the handle's chat
Started(X, R, name, ctx) ==
    LET c == _call_agent(R.registry, name)
        n == Len(X.calls) + 1
    IN [X EXCEPT !.calls = Append(@, [name |-> name, task |-> AgentTask(R.plan, name, R.task),
                                      context |-> ctx,
                                      invoked |-> c.suspends,
                                      st |-> IF c.suspends THEN "running" ELSE "done",
                                      result |-> c.result]),
                 !.completion_order = IF c.suspends THEN @ ELSE Append(@, n)]

\* a coordinator without the except clause: the fault leaves execute_task
FailMutPropagates(X, detail) == [X EXCEPT !.pc = "propagated"]

\* the except clause of lines 227-232
Fail(X, detail) == [X EXCEPT !.pc = "returned", !.outcome = ErrorOutcome(detail)]

\* lines 214-225
Succeed(X, R, response) ==
    [X EXCEPT !.pc = "returned",
              !.total = @ + 1,
              !.outcome = CoordinationOutcome(response, StrategyOf(R.plan), R.plan.agents, X.agent_results)]

\* line 203
SynthesisNeededMutAlways(results) == Len(results) >= 1

SynthesisNeeded(results) == Len(results) > 1

\* lines 202-225: synthesis (suspending in the backend call) for several
\* entries, passthrough of the only one, IndexError when there is none
Finish(X, R) ==
    IF SynthesisNeeded(X.agent_results)
      THEN [X EXCEPT !.pc = "synth",
                     !.llm_calls = Append(@, [purpose |-> "synthesis",
                                              prompt |-> SynthesisPrompt(R.task, X.agent_results),
                                              reply |-> Absent])]
    ELSE IF Len(X.agent_results) = 0
      THEN Fail(X, "list index out of range")
    ELSE Succeed(X, R, X.agent_results[1].result.response)

\* lines 199-200 (and 165): store the result under the agent's name and
\* remember its response
RecordedMutSkipsErrors(X, name, result) ==
    IF result.error # Absent THEN X
    ELSE [X EXCEPT !.agent_results = DictSet(@, name, result),
                   !.previous_output = result.response]

Recorded(X, name, result) ==
    [X EXCEPT !.agent_results = DictSet(@, name, result),
              !.previous_output = result.response]

\* lines 188-190: the previous output is injected when it is truthy
EnhancedContextMutNeverInjects(ctx, prev) == ctx

EnhancedContext(ctx, prev) ==
    IF prev # Absent /\ prev # ""
      THEN [ctx EXCEPT !["previous_agent_output"] = prev]
      ELSE ctx

\* a single strategy that takes the last name of the plan
SingleMutLastAgent(X, R) ==
    LET name == IF Len(R.plan.agents) > 0 THEN R.plan.agents[Len(R.plan.agents)] ELSE "experiment_conductor"
        X1 == Started(X, R, name, R.context)
        c == X1.calls[Len(X1.calls)]
    IN IF c.st = "running"
         THEN [X1 EXCEPT !.pc = "single"]
         ELSE Finish([X1 EXCEPT !.agent_results = DictSet(@, name, c.result)], R)

\* a single strategy without the default agent of line 155
SingleMutNoDefault(X, R) ==
    IF Len(R.plan.agents) = 0 THEN Fail(X, "list index out of range")
    ELSE LET name == R.plan.agents[1]
             X1 == Started(X, R, name, R.context)
             c == X1.calls[Len(X1.calls)]
         IN IF c.st = "running"
              THEN [X1 EXCEPT !.pc = "single"]
              ELSE Finish([X1 EXCEPT !.agent_results = DictSet(@, name, c.result)], R)

\* lines 153-165
Single(X, R) ==
    LET name == IF Len(R.plan.agents) > 0 THEN R.plan.agents[1] ELSE "experiment_conductor"
        X1 == Started(X, R, name, R.context)
        c == X1.calls[Len(X1.calls)]
    IN IF c.st = "running"
         THEN [X1 EXCEPT !.pc = "single"]
         ELSE Finish([X1 EXCEPT !.agent_results = DictSet(@, name, c.result)], R)

RECURSIVE StartAll(_, _, _)
\* the coroutines gather schedules begin to run in the order they were given
StartAll(X, R, i) ==
    IF i > Len(R.plan.agents) THEN X
    ELSE StartAll(Started(X, R, R.plan.agents[i], R.context), R, i + 1)

AllDone(X) == \A i \in 1..Len(X.calls) : X.calls[i].st = "done"

\* asyncio.gather: the results in the order of the awaitables
GatherMutCompletionOrder(calls, completion) ==
    [i \in 1..Len(calls) |-> calls[completion[i]].result]

Gather(calls, completion) == [i \in 1..Len(calls) |-> calls[i].result]

RECURSIVE ZipResults(_, _, _)
\* lines 178-179: the first n pairs of zip(agents_to_use, results)
ZipResults(names, results, n) ==
    IF n = 0 THEN <<>>
    ELSE DictSet(ZipResults(names, results, n - 1), names[n], results[n])

\* lines 177-179 once every coroutine is done, then the synthesis decision
Joined(X, R) ==
    Finish([X EXCEPT !.agent_results =
                ZipResults(R.plan.agents, Gather(X.calls, X.completion_order), Len(X.calls))], R)

\* lines 167-179
Parallel(X, R) ==
    LET X1 == StartAll(X, R, 1)
    IN IF AllDone(X1) THEN Joined(X1, R) ELSE [X1 EXCEPT !.pc = "gather"]

RECURSIVE SeqLoop(_, _, _)
\* lines 184-200 from the i-th agent on, up to the next suspension
SeqLoopMutFanOut(X, R, i) ==
    IF i > Len(R.plan.agents) THEN Finish(X, R)
    ELSE LET name == R.plan.agents[i]
             X1 == Started(X, R, name, EnhancedContext(R.context, X.previous_output))
             c == X1.calls[Len(X1.calls)]
         IN IF c.st = "running" /\ i = Len(R.plan.agents)
              THEN [X1 EXCEPT !.pc = "sequential", !.seq_i = i]
            ELSE IF c.st = "running"
              THEN SeqLoop(X1, R, i + 1)
            ELSE SeqLoop(Recorded(X1, name, c.result), R, i + 1)

SeqLoop(X, R, i) ==
    IF i > Len(R.plan.agents) THEN Finish(X, R)
    ELSE LET name == R.plan.agents[i]
             X1 == Started(X, R, name, EnhancedContext(R.context, X.previous_output))
             c == X1.calls[Len(X1.calls)]
         IN IF c.st = "running"
              THEN [X1 EXCEPT !.pc = "sequential", !.seq_i = i]
              ELSE SeqLoop(Recorded(X1, name, c.result), R, i + 1)

\* an engine that runs a strategy it does not know as single
ExecuteMutUnknownAsSingle(X, R) ==
    IF ~R.plan.is_object THEN Fail(X, "object has no attribute 'get'")
    ELSE IF StrategyOf(R.plan) = "single" THEN Single(X, R)
    ELSE IF StrategyOf(R.plan) = "parallel" THEN Parallel(X, R)
    ELSE IF StrategyOf(R.plan) = "sequential" THEN SeqLoop(X, R, 1)
    ELSE Single(X, R)

\* lines 146-212: the plan is read (AttributeError when it is no object) and
\* the strategy chosen; a strategy outside the three leaves agent_results
\* empty
Execute(X, R) ==
    IF ~R.plan.is_object THEN Fail(X, "object has no attribute 'get'")
    ELSE IF StrategyOf(R.plan) = "single" THEN Single(X, R)
    ELSE IF StrategyOf(R.plan) = "parallel" THEN Parallel(X, R)
    ELSE IF StrategyOf(R.plan) = "sequential" THEN SeqLoop(X, R, 1)
    ELSE Finish(X, R)

\* ================================ state ==================================
VARIABLES
    agents,             \* self.agents: the names the registry holds
    total_coordinations,\* self.total_coordinations
    \* ---- one run of execute_workflow
    wf_pc,              \* "idle", "loop", "returned", "propagated"
    workflow_steps,     \* the loaded template
    initial_data,       \* the caller's initial_data mapping (the caller's object)
    initial_snapshot,   \* what that mapping held when execute_workflow was called
    aliased,            \* collected_data is the caller's object itself
    collected_data,
    execution_log,
    current_step,
    cursor,             \* index (from 1) of the step the for loop is at
    handler_calls,      \* indexes of the steps whose handler coroutine was called
    wf_result,          \* the returned object
    \* ---- one call of execute_task
    t_pc,               \* "idle", "routing", "single", "gather", "sequential", "synth", "returned"
    task,               \* the caller's task text
    context,            \* the caller's context
    route_content,      \* what the backend returned to route_task
    routing_plan,       \* the plan route_task returned
    calls,              \* the _call_agent coroutines begun, in order: name, task, context,
                        \* whether the agent's handle was invoked, state, result
    agent_results,      \* the dict of line 150, in insertion order
    previous_output,    \* line 183/200 (Absent is None)
    seq_i,              \* the position of the sequential loop in plan.agents
    llm_calls,          \* requests made to the text-generation backend, with the reply once given
    completion_order,   \* indexes of calls in the order they completed
    outcome,            \* what execute_task returned
    \* ---- several calls of execute_task on the one coordinator
    runs                \* per call: its coroutine state X, its inputs R, the routing content

wf_vars == <<wf_pc, workflow_steps, initial_data, initial_snapshot, aliased, collected_data,
             execution_log, current_step, cursor, handler_calls, wf_result>>

task_vars == <<t_pc, task, context, route_content, routing_plan, calls, agent_results,
               previous_output, seq_i, llm_calls, completion_order, outcome>>

WfIdle ==
    /\ wf_pc = "idle"
    /\ workflow_steps = <<>>
    /\ initial_data = EmptyData
    /\ initial_snapshot = EmptyData
    /\ aliased = FALSE
    /\ collected_data = EmptyData
    /\ execution_log = <<>>
    /\ current_step = 0
    /\ cursor = 1
    /\ handler_calls = <<>>
    /\ wf_result = NoRunResult

\* execute_workflow up to the for loop (lines 339-347).  The template source
\* is external: _load_workflow_template returns a fixed one-step mock today,
\* which is Templates' <<StepPool's Introduction step>>.
\* "initial_data or {}" keeps the caller's own mapping when it is non-empty.
StartWorkflowWith(steps, init) ==
    /\ wf_pc = "idle"
    /\ workflow_steps' = steps
    /\ initial_data' = init
    /\ initial_snapshot' = init
    /\ aliased' = Truthy(init)
    /\ collected_data' = init
    /\ execution_log' = <<>>
    /\ current_step' = 0
    /\ cursor' = 1
    /\ handler_calls' = <<>>
    /\ IF Len(steps) = 0
         THEN /\ wf_pc' = "returned"
              /\ wf_result' = WorkflowRunResult(0, steps, <<>>, init)
         ELSE /\ wf_pc' = "loop"
              /\ wf_result' = NoRunResult
    /\ UNCHANGED <<agents, runs, total_coordinations, task_vars>>

\* execute_workflow is called with a template of the pool and a caller's
\* initial_data
StartWorkflow ==
    /\ wf_pc = "idle"
    /\ \E steps \in Templates, init \in InitialDatas : StartWorkflowWith(steps, init)

\* one iteration of the for loop; the iteration that ends the loop also
\* builds and returns the result (lines 403-414), or lets the fault out
ExecuteStep ==
    /\ wf_pc = "loop"
    /\ cursor <= Len(workflow_steps)
    /\ \E clk \in Clock :
         LET step == workflow_steps[cursor]
             o == StepOutcome(step, agents, collected_data, clk)
             log == LogAfter(execution_log, step, o)
             data == DataAfter(collected_data, o)
             done == CountAfter(current_step, o)
         IN /\ execution_log' = log
            /\ collected_data' = data
            /\ initial_data' = IF aliased THEN data ELSE initial_data
            /\ current_step' = done
            /\ handler_calls' = IF o.invoked THEN Append(handler_calls, cursor) ELSE handler_calls
            /\ cursor' = cursor + 1
            /\ IF o.kind = "propagate"
                 THEN /\ wf_pc' = "propagated"
                      /\ wf_result' = NoRunResult
               ELSE IF Continues(o) /\ cursor < Len(workflow_steps)
                 THEN /\ wf_pc' = "loop"
                      /\ wf_result' = NoRunResult
               ELSE /\ wf_pc' = "returned"
                    /\ wf_result' = WorkflowRunResult(done, workflow_steps, log, data)
    /\ UNCHANGED <<agents, runs, total_coordinations, task_vars, workflow_steps, initial_snapshot, aliased>>

TaskIdle ==
    /\ t_pc = "idle"
    /\ task = Absent
    /\ context = EmptyCtx
    /\ route_content = [kind |-> Absent, plan |-> NoPlan]
    /\ routing_plan = NoPlan
    /\ calls = <<>>
    /\ agent_results = <<>>
    /\ previous_output = Absent
    /\ seq_i = 0
    /\ llm_calls = <<>>
    /\ completion_order = <<>>
    /\ outcome = NoOutcome

\* the reply of the backend to the request that is waiting for it
Replied(X, reply) == [X EXCEPT !.llm_calls[Len(X.llm_calls)].reply = reply]

\* the coroutine's state as a record, and the run's inputs
Cur ==
    [pc |-> t_pc, calls |-> calls, agent_results |-> agent_results,
     previous_output |-> previous_output, seq_i |-> seq_i, llm_calls |-> llm_calls,
     completion_order |-> completion_order, outcome |-> outcome,
     total |-> total_coordinations]

Run == [task |-> task, context |-> context, plan |-> routing_plan, registry |-> agents]

Install(X) ==
    /\ t_pc' = X.pc
    /\ calls' = X.calls
    /\ agent_results' = X.agent_results
    /\ previous_output' = X.previous_output
    /\ seq_i' = X.seq_i
    /\ llm_calls' = X.llm_calls
    /\ completion_order' = X.completion_order
    /\ outcome' = X.outcome
    /\ total_coordinations' = X.total

\* execute_task is called: route_task builds its prompt and suspends in the
\* backend call (lines 140-107)
ExecuteTask ==
    /\ t_pc = "idle"
    /\ \E t \in Tasks, ctx \in Contexts :
         /\ task' = t
         /\ context' = ctx
         /\ llm_calls' = Append(llm_calls, [purpose |-> "routing",
                                            prompt |-> RoutingPrompt(t, ctx, agents),
                                            reply |-> Absent])
    /\ t_pc' = "routing"
    /\ UNCHANGED <<agents, runs, total_coordinations, wf_vars, route_content, routing_plan, calls,
                   agent_results, previous_output, seq_i, completion_order, outcome>>

\* the backend answers the routing request: route_task parses and returns the
\* plan, execute_task runs it up to its next suspension (lines 109-212); on
\* a content that is no text json.loads raises TypeError, which the except
\* clause of route_task does not name, so route_task raises into the except
\* clause of execute_task
RouteReturn ==
    /\ t_pc = "routing"
    /\ \E content \in RouteContents :
         LET plan == ParsePlan(content, task, RoutingPrompt(task, context, agents))
         IN /\ route_content' = content
            /\ routing_plan' = plan
            /\ Install(IF content.kind = "null"
                         THEN Fail(Replied(Cur, content.kind), "the JSON object must be str, not NoneType")
                         ELSE Execute(Replied(Cur, content.kind), [Run EXCEPT !.plan = plan]))
    /\ UNCHANGED <<agents, runs, wf_vars, task, context>>

\* the backend call of route_task raises: the fault reaches the except clause
\* of execute_task
RouteRaise ==
    /\ t_pc = "routing"
    /\ Install(Fail(Replied(Cur, "<raised>"), "routing backend fault"))
    /\ UNCHANGED <<agents, runs, wf_vars, task, context, route_content, routing_plan>>

\* the conductor handle's chat returns to the _call_agent coroutine i
ChatReturn ==
    /\ \E i \in 1..Len(calls), r \in ChatResults :
         /\ calls[i].st = "running"
         /\ LET X1 == [Cur EXCEPT !.calls[i].st = "done", !.calls[i].result = r,
                                  !.completion_order = Append(@, i)]
                name == calls[i].name
            IN Install(
                 IF t_pc = "single"
                   THEN Finish([X1 EXCEPT !.agent_results = DictSet(@, name, r)], Run)
                 ELSE IF t_pc = "sequential"
                   THEN SeqLoop(Recorded(X1, name, r), Run, seq_i + 1)
                 ELSE IF t_pc = "gather"
                   THEN IF AllDone(X1) THEN Joined(X1, Run) ELSE X1
                 ELSE X1)
    /\ UNCHANGED <<agents, runs, wf_vars, task, context, route_content, routing_plan>>

\* the handle's chat raises in the _call_agent coroutine i (the registry
\* holds whatever handle the constructor was given; ExperimentConductor.chat
\* catches Exception itself, another handle need not): nothing catches it
\* before the except clause of execute_task; under gather the first fault
\* resumes execute_task at once and the sibling coroutines run on
ChatRaise ==
    /\ \E i \in 1..Len(calls) :
         /\ calls[i].st = "running"
         /\ LET X1 == [Cur EXCEPT !.calls[i].st = "raised"]
            IN Install(IF t_pc \in {"single", "sequential", "gather"}
                         THEN Fail(X1, "agent handle fault")
                         ELSE X1)
    /\ UNCHANGED <<agents, runs, wf_vars, task, context, route_content, routing_plan>>

\* the backend answers the synthesis request (lines 313-320, 214-225)
SynthReturn ==
    /\ t_pc = "synth"
    /\ \E content \in SynthContents : Install(Succeed(Replied(Cur, content), Run, content))
    /\ UNCHANGED <<agents, runs, wf_vars, task, context, route_content, routing_plan>>

\* the backend call of _synthesize_results raises
SynthRaise ==
    /\ t_pc = "synth"
    /\ Install(Fail(Replied(Cur, "<raised>"), "synthesis backend fault"))
    /\ UNCHANGED <<agents, runs, wf_vars, task, context, route_content, routing_plan>>

\* ============ several calls of execute_task on one coordinator ============
\* Each call is its own coroutine: it runs from one await to the next without
\* interruption, and the calls share self.total_coordinations.

CallIds == {"call_a", "call_b"}

\* the routing contents the calls are given
CallPlan(strategy, names) ==
    [is_object |-> TRUE, strategy |-> strategy, agents |-> names, routing |-> NoRouting]

CallContents ==
    { [kind |-> "not_json", plan |-> NoPlan],
      [kind |-> "non_object", plan |-> NoPlan],
      [kind |-> "object", plan |-> CallPlan("single", <<"data_analyst">>)],
      [kind |-> "object", plan |-> CallPlan("parallel", <<"experiment_conductor", "data_analyst">>)],
      [kind |-> "object", plan |-> CallPlan("sequential", <<"data_analyst", "experiment_conductor">>)],
      [kind |-> "object", plan |-> CallPlan("iterative", <<"experiment_conductor">>)] }

\* a call that has not been made yet
IdleRun ==
    [X |-> [pc |-> "idle", calls |-> <<>>, agent_results |-> <<>>, previous_output |-> Absent,
            seq_i |-> 0, llm_calls |-> <<>>, completion_order |-> <<>>, outcome |-> NoOutcome,
            total |-> 0],
     R |-> [task |-> Absent, context |-> EmptyCtx, plan |-> NoPlan, registry |-> {}],
     content |-> [kind |-> Absent, plan |-> NoPlan]]

CallsIdle == runs = [c \in CallIds |-> IdleRun]

\* a coroutine that runs on after an await keeps no copy of the counter: it
\* keeps what it had when it suspended
ResumeMutStaleCounter(c) == runs[c].X

\* the coroutine of call c runs on: self.total_coordinations is the shared
\* attribute, read where line 215 reads it
Resume(c) == [runs[c].X EXCEPT !.total = total_coordinations]

\* the coroutine of call c has run to its next await or to its return
Suspend(c, X, R, content) ==
    /\ runs' = [runs EXCEPT ![c] = [X |-> X, R |-> R, content |-> content]]
    /\ total_coordinations' = X.total
    /\ UNCHANGED <<agents, wf_vars, task_vars>>

\* execute_task is called (lines 140-107)
CallExecuteTask ==
    \E c \in CallIds, t \in Tasks, ctx \in Contexts :
      /\ runs[c].X.pc = "idle"
      /\ Suspend(c,
                 [Resume(c) EXCEPT !.pc = "routing",
                                   !.llm_calls = Append(@, [purpose |-> "routing",
                                                            prompt |-> RoutingPrompt(t, ctx, agents),
                                                            reply |-> Absent])],
                 [task |-> t, context |-> ctx, plan |-> NoPlan, registry |-> agents],
                 runs[c].content)

\* the backend answers the routing request of call c (lines 109-212)
CallRouteReturn ==
    \E c \in CallIds, content \in CallContents :
      /\ runs[c].X.pc = "routing"
      /\ LET R0 == runs[c].R
             R1 == [R0 EXCEPT !.plan = ParsePlan(content, R0.task,
                                                  RoutingPrompt(R0.task, R0.context, agents))]
         IN Suspend(c, Execute(Replied(Resume(c), content.kind), R1), R1, content)

\* the routing backend call of call c raises
CallRouteRaise ==
    \E c \in CallIds :
      /\ runs[c].X.pc = "routing"
      /\ Suspend(c, Fail(Replied(Resume(c), "<raised>"), "routing backend fault"),
                 runs[c].R, runs[c].content)

\* the conductor handle's chat returns to invocation i of call c
CallChatReturn ==
    \E c \in CallIds :
      \E i \in 1..Len(runs[c].X.calls), r \in ChatResults :
        /\ runs[c].X.calls[i].st = "running"
        /\ LET X0 == Resume(c)
               R0 == runs[c].R
               X1 == [X0 EXCEPT !.calls[i].st = "done", !.calls[i].result = r,
                                !.completion_order = Append(@, i)]
               name == X0.calls[i].name
           IN Suspend(c,
                      IF X0.pc = "single"
                        THEN Finish([X1 EXCEPT !.agent_results = DictSet(@, name, r)], R0)
                      ELSE IF X0.pc = "sequential"
                        THEN SeqLoop(Recorded(X1, name, r), R0, X0.seq_i + 1)
                      ELSE IF X0.pc = "gather"
                        THEN IF AllDone(X1) THEN Joined(X1, R0) ELSE X1
                      ELSE X1,
                      R0, runs[c].content)

\* the handle's chat raises in invocation i of call c
CallChatRaise ==
    \E c \in CallIds :
      \E i \in 1..Len(runs[c].X.calls) :
        /\ runs[c].X.calls[i].st = "running"
        /\ LET X0 == Resume(c)
               X1 == [X0 EXCEPT !.calls[i].st = "raised"]
           IN Suspend(c,
                      IF X0.pc \in {"single", "sequential", "gather"}
                        THEN Fail(X1, "agent handle fault")
                        ELSE X1,
                      runs[c].R, runs[c].content)

\* the backend answers the synthesis request of call c
CallSynthReturn ==
    \E c \in CallIds, content \in SynthContents :
      /\ runs[c].X.pc = "synth"
      /\ Suspend(c, Succeed(Replied(Resume(c), content), runs[c].R, content),
                 runs[c].R, runs[c].content)

\* the synthesis backend call of call c raises
CallSynthRaise ==
    \E c \in CallIds :
      /\ runs[c].X.pc = "synth"
      /\ Suspend(c, Fail(Replied(Resume(c), "<raised>"), "synthesis backend fault"),
                 runs[c].R, runs[c].content)

\* the template _load_workflow_template returns (lines 420-428)
MockTemplate ==
    << [order |-> 0, name |-> "Introduction", stepType |-> "participant_guidance",
        agentId |-> "experiment_conductor"] >>

\* execute_workflow is called on the coordinator the calls run on, and loads
\* that template
CallWorkflowStart == \E init \in InitialDatas : StartWorkflowWith(MockTemplate, init)

vars == <<agents, total_coordinations, wf_vars, task_vars, runs>>

InitWorkflow ==
    /\ agents = MainRegistry
    /\ total_coordinations = 0
    /\ WfIdle
    /\ TaskIdle
    /\ CallsIdle

InitTask ==
    /\ agents \in TaskRegistries
    /\ total_coordinations = 0
    /\ WfIdle
    /\ TaskIdle
    /\ CallsIdle

NextTask ==
    \/ ExecuteTask
    \/ RouteReturn
    \/ RouteRaise
    \/ ChatReturn
    \/ ChatRaise
    \/ SynthReturn
    \/ SynthRaise

SpecTask == InitTask /\ [][NextTask]_vars

NextWorkflow == StartWorkflow \/ ExecuteStep

SpecWorkflow == InitWorkflow /\ [][NextWorkflow]_vars

InitCalls ==
    /\ agents = MainRegistry
    /\ total_coordinations = 0
    /\ WfIdle
    /\ TaskIdle
    /\ CallsIdle

NextCalls ==
    \/ CallWorkflowStart
    \/ ExecuteStep
    \/ CallExecuteTask
    \/ CallRouteReturn
    \/ CallRouteRaise
    \/ CallChatReturn
    \/ CallChatRaise
    \/ CallSynthReturn
    \/ CallSynthRaise

SpecCalls == InitCalls /\ [][NextCalls]_vars


\* ======================= properties of the workflow ======================
\* the step raises inside the try block whatever the collected data: its
\* guidance handler meets a registered agent without provide_guidance, or
\* the dispatch finds no stepType key
StepFaults(step) ==
    \/ step.stepType = Absent
    \/ /\ step.stepType = "participant_guidance"
       /\ step.agentId \in agents \ {"experiment_conductor"}

\* the step's handler itself raises
HandlerRaises(step) == step.stepType # Absent /\ StepFaults(step)

\* the step carries the fields the data model gives every WorkflowStep
WellFormed(step) == step.order # NoOrder /\ step.name # Absent

FaultingSteps == { i \in 1..Len(workflow_steps) : StepFaults(workflow_steps[i]) }

\* index of the first step that raises, 0 when none does
FirstFault ==
    IF FaultingSteps = {} THEN 0
    ELSE CHOOSE k \in FaultingSteps : \A j \in FaultingSteps : k <= j

RECURSIVE MergeOutputs(_, _, _)
\* data overlaid with the output_data of the first n log entries, in order
MergeOutputs(data, log, n) ==
    IF n = 0 THEN data
    ELSE Update(MergeOutputs(data, log, n - 1), log[n].result.output_data)

IsSuccessEntry(e) == e.error = Absent /\ e.result # NoResult

IsErrorEntry(e) == e.error # Absent /\ e.result = NoResult

\* C1 (workflow fail-fast): in a run whose steps 1..k-1 return and whose
\* step k raises, no handler of a step after k is ever invoked and the log
\* never grows past k entries; the run returns (the fault is not let out)
\* with status failed, steps_completed = k-1, a log of exactly k entries
\* (k-1 success entries for steps 1..k-1, then one error entry without
\* result for step k), and collected_data equal to the initial data overlaid
\* with the output_data of steps 1..k-1 only.
C1_FailFast ==
    LET k == FirstFault
    IN (wf_pc # "idle" /\ k > 0 /\ \A i \in 1..k : WellFormed(workflow_steps[i]))
       => /\ wf_pc # "propagated"
          /\ \A j \in 1..Len(handler_calls) : handler_calls[j] <= k
          /\ Len(execution_log) <= k
          /\ wf_pc = "returned" =>
               /\ wf_result.status = "failed"
               /\ wf_result.steps_completed = k - 1
               /\ Len(wf_result.execution_log) = k
               /\ \A i \in 1..(k - 1) :
                    /\ IsSuccessEntry(wf_result.execution_log[i])
                    /\ wf_result.execution_log[i].step_name = workflow_steps[i].name
               /\ IsErrorEntry(wf_result.execution_log[k])
               /\ wf_result.execution_log[k].step_name = workflow_steps[k].name
               /\ wf_result.collected_data =
                    MergeOutputs(initial_snapshot, wf_result.execution_log, k - 1)

\* a returned run in which the first step merged its output over the
\* caller's value, the second step's handler raised, and the third step was
\* left unrun
C1_Witness ==
    /\ wf_pc = "returned"
    /\ FirstFault = 2
    /\ Len(workflow_steps) = 3
    /\ HandlerRaises(workflow_steps[2])
    /\ workflow_steps[1].stepType = "target_generation"
    /\ workflow_steps[3].stepType = "ai_scoring"
    /\ WellFormed(workflow_steps[3])
    /\ initial_snapshot["target_hash"] = "caller_hash"
    /\ wf_result.collected_data["target_hash"] = "mock_hash_t2"
    /\ wf_result.collected_data["session_id"] = "s1"
    /\ wf_result.collected_data["score"] = Absent

\* C2: in every returned result steps_completed = total_steps exactly when
\* status is completed, and status completed means that no step raised:
\* every step has its success entry (the zero-step workflow included).
C2_CompletedIffAllSteps ==
    wf_pc = "returned" =>
      /\ (wf_result.steps_completed = wf_result.total_steps) <=> (wf_result.status = "completed")
      /\ wf_result.status \in {"completed", "failed"}
      /\ wf_result.total_steps = Len(workflow_steps)
      /\ wf_result.status = "completed" =>
           /\ FaultingSteps = {}
           /\ Len(wf_result.execution_log) = Len(workflow_steps)
           /\ \A i \in 1..Len(workflow_steps) : IsSuccessEntry(wf_result.execution_log[i])

\* a completed run of several steps
C2_Witness ==
    /\ wf_pc = "returned"
    /\ wf_result.status = "completed"
    /\ wf_result.total_steps >= 2

\* C3 as stated: the log has exactly steps_completed entries in every
\* returned result, failed ones included (refuted: the error entry is one
\* more).
C3_Original_LogLenEqualsCompleted ==
    wf_pc = "returned" => Len(wf_result.execution_log) = wf_result.steps_completed

\* C3 amended: the log has exactly steps_completed entries when the status
\* is completed, and exactly steps_completed + 1 entries when it is failed:
\* steps_completed success entries followed by the one error entry.
C3_LogLength ==
    wf_pc = "returned" =>
      LET log == wf_result.execution_log
          n == wf_result.steps_completed
      IN /\ \A i \in 1..n : i <= Len(log) /\ IsSuccessEntry(log[i])
         /\ wf_result.status = "completed" => Len(log) = n
         /\ wf_result.status = "failed" => Len(log) = n + 1 /\ IsErrorEntry(log[n + 1])

\* a failed run with completed steps before the failing one
C3_Witness ==
    /\ wf_pc = "returned"
    /\ wf_result.status = "failed"
    /\ wf_result.steps_completed >= 1
    /\ Len(wf_result.execution_log) = wf_result.steps_completed + 1


\* ===================== properties of the task engine =====================
PlanAgents == routing_plan.agents

PlanStrategy == IF routing_plan.is_object THEN StrategyOf(routing_plan) ELSE Absent

DistinctNames(names) ==
    \A i, j \in 1..Len(names) : names[i] = names[j] => i = j

SynthesisCalls == { i \in 1..Len(llm_calls) : llm_calls[i].purpose = "synthesis" }

DoneCalls == { i \in 1..Len(calls) : calls[i].st = "done" }

RaisedCalls == { i \in 1..Len(calls) : calls[i].st = "raised" }

RunningCalls == { i \in 1..Len(calls) : calls[i].st = "running" }

\* the invocation failed by returning an error result
ReturnedError(i) == calls[i].st = "done" /\ calls[i].result.error # Absent

\* the last call made for the same agent name as call i
LastCallOf(i) ==
    CHOOSE j \in 1..Len(calls) :
      /\ calls[j].name = calls[i].name
      /\ \A k \in 1..Len(calls) : calls[k].name = calls[i].name => k <= j

\* C4 (parallel order-invariance): under the parallel strategy with distinct
\* agent names, once every invocation has completed, in whatever order, the
\* keys of agent_results are plan.agents in plan order and each key holds
\* the result of the invocation made for that agent; a returned non-error
\* outcome carries exactly that mapping.
C4_ParallelOrder ==
    (/\ PlanStrategy = "parallel"
     /\ DistinctNames(PlanAgents)
     /\ t_pc \in {"synth", "returned"}
     /\ RaisedCalls = {} /\ RunningCalls = {})
    => /\ Len(agent_results) = Len(PlanAgents)
       /\ Len(calls) = Len(PlanAgents)
       /\ \A i \in 1..Len(PlanAgents) :
            /\ agent_results[i].name = PlanAgents[i]
            /\ calls[i].name = PlanAgents[i]
            /\ agent_results[i].result = calls[i].result
       /\ (t_pc = "returned" /\ outcome.strategy # "error")
            => outcome.agent_results = agent_results

\* a returned parallel run of three agents in which the first declared
\* agent completed last
C4_Witness ==
    /\ t_pc = "returned"
    /\ PlanStrategy = "parallel"
    /\ outcome.strategy = "parallel"
    /\ Len(PlanAgents) = 3
    /\ DistinctNames(PlanAgents)
    /\ completion_order = <<2, 3, 1>>
    /\ outcome.agent_results[1].name = "experiment_conductor"
    /\ outcome.agent_results[1].result.response = "conductor answer"

C7_SequentialOrder ==
    PlanStrategy = "sequential" =>
      /\ Len(calls) <= Len(PlanAgents)
      /\ \A i \in 1..Len(calls) : calls[i].name = PlanAgents[i]
      /\ \A i \in 1..(Len(calls) - 1) : calls[i].st = "done"
      /\ Cardinality(RunningCalls) <= 1

\* the second of two conductor invocations is in flight after the first
\* returned
C7_Witness ==
    /\ PlanStrategy = "sequential"
    /\ t_pc = "sequential"
    /\ Len(calls) = 2
    /\ calls[1].name = "experiment_conductor"
    /\ calls[1].st = "done"
    /\ calls[2].name = "experiment_conductor"
    /\ calls[2].st = "running"

\* C8 (single-result passthrough): under the single strategy no synthesis
\* request is ever made and at most one invocation; whenever execute_task
\* has returned for a single plan, or after exactly one invocation produced
\* an AgentResult, and no handle raised, the outcome is not the error
\* outcome, its response is that AgentResult's response and no synthesis
\* request was made.
C8_Passthrough ==
    /\ PlanStrategy = "single" => SynthesisCalls = {} /\ Len(calls) <= 1
    /\ (/\ t_pc = "returned"
        /\ RaisedCalls = {}
        /\ PlanStrategy = "single" \/ Cardinality(DoneCalls) = 1)
       => /\ Len(calls) = 1
          /\ outcome.strategy = PlanStrategy
          /\ outcome.response = calls[1].result.response
          /\ SynthesisCalls = {}

\* a parallel plan of one agent whose answer is passed through
C8_Witness ==
    /\ t_pc = "returned"
    /\ PlanStrategy = "parallel"
    /\ outcome.strategy = "parallel"
    /\ Len(calls) = 1
    /\ outcome.response = "conductor answer"

\* C9 as stated: whenever the execution of a plan yielded two or more
\* AgentResults (one per completed invocation) and the task returned without
\* a fault, exactly one synthesis request was made, after every invocation
\* completed, and the outcome's response is the backend's reply (refuted by
\* a plan that names one agent twice).
C9_Original_SynthesisOnMultiplicity ==
    /\ (t_pc = "synth") => RunningCalls = {}
    /\ (/\ t_pc = "returned"
        /\ outcome.strategy # "error"
        /\ Cardinality(DoneCalls) >= 2)
       => /\ Cardinality(SynthesisCalls) = 1
          /\ \A i \in SynthesisCalls : outcome.response = llm_calls[i].reply

\* C10 as stated: when the backend's content is not JSON, route_task returns
\* strategy single, agents [experiment_conductor] and a routing map that
\* gives the conductor the caller's task text (refuted: it gives the routing
\* prompt).
C10_Original_RoutingFallback ==
    (t_pc \notin {"idle", "routing"} /\ route_content.kind = "not_json")
    => /\ routing_plan.strategy = "single"
       /\ routing_plan.agents = <<"experiment_conductor">>
       /\ routing_plan.routing = [NoRouting EXCEPT !["experiment_conductor"] = task]

\* ---------------------------------------------------------------------------
\* route_task's result

\* route_task has returned a plan for the backend's content
RouteReturned == t_pc \notin {"idle", "routing"} /\ route_content.kind \notin {Absent, "null"}

\* C11 as stated: for every content of the routing backend, route_task does
\* not fail and the plan it returns is an object whose strategy is single,
\* parallel or sequential and whose agent list is not empty (refuted: the
\* parsed JSON is returned unvalidated, and a content that is no text makes
\* route_task raise).
C11_Original_RoutePostCondition ==
    /\ (t_pc \notin {"idle", "routing"} /\ route_content.kind # Absent) => RouteReturned
    /\ RouteReturned
       => /\ routing_plan.is_object
          /\ routing_plan.strategy \in {"single", "parallel", "sequential"}
          /\ Len(routing_plan.agents) >= 1

\* ---------------------------------------------------------------------------
\* faults of execute_task

\* a fault was raised inside execute_task's try block: by a backend call, by
\* a handle, by json.loads on a content that is no text, by .get on a plan
\* that is no object, or by indexing the keys of an empty result map
FaultOccurred ==
    \/ RaisedCalls # {}
    \/ \E i \in 1..Len(llm_calls) : llm_calls[i].reply = "<raised>"
    \/ route_content.kind \in {"null", "non_object"}
    \/ /\ RouteReturned
       /\ routing_plan.is_object
       /\ \/ StrategyOf(routing_plan) \notin {"single", "parallel", "sequential"}
          \/ StrategyOf(routing_plan) \in {"parallel", "sequential"} /\ PlanAgents = <<>>

\* C12: once a fault has occurred in routing, in an agent invocation or in
\* synthesis, execute_task has returned (it never propagates the fault) and
\* its outcome has strategy "error" and the generic apology as response.
C12_GracefulDegradation ==
    FaultOccurred
    => /\ t_pc = "returned"
       /\ outcome.strategy = "error"
       /\ outcome.response = Apology

\* the synthesis backend raised after two agents had answered
C12_Witness ==
    /\ t_pc = "returned"
    /\ \E i \in SynthesisCalls : llm_calls[i].reply = "<raised>"
    /\ Len(agent_results) >= 2
    /\ RaisedCalls = {}
    /\ outcome.strategy = "error"
    /\ outcome.response = Apology

\* ---------------------------------------------------------------------------
\* names the registry does not hold

\* the calls made for a name that is absent from the registry
NotFoundCalls == { i \in 1..Len(calls) : calls[i].name \notin agents }

\* C13: under single, parallel and sequential, an invocation for a name the
\* registry does not hold completes at once with the agent_not_found result
\* and raises nothing; when no handle and no backend raised, the task returns
\* a non-error outcome in which every plan agent was invoked (parallel,
\* sequential) and the absent name's entry of agent_results carries the
\* agent_not_found error.
C13_AgentNotFound ==
    /\ \A i \in NotFoundCalls :
         /\ calls[i].st = "done"
         /\ ~calls[i].invoked
         /\ calls[i].result = NotFoundResult(calls[i].name)
         /\ calls[i].result.error = "agent_not_found"
    /\ (/\ t_pc = "returned"
        /\ NotFoundCalls # {}
        /\ RaisedCalls = {}
        /\ \A i \in 1..Len(llm_calls) : llm_calls[i].reply # "<raised>")
       => /\ PlanStrategy \in {"single", "parallel", "sequential"}
          /\ outcome.strategy = PlanStrategy
          /\ outcome.error = Absent
          /\ PlanStrategy # "single"
             => /\ Len(calls) = Len(PlanAgents)
                /\ \A i \in 1..Len(calls) : calls[i].name = PlanAgents[i]
          /\ \A i \in NotFoundCalls :
               /\ DictHas(outcome.agent_results, calls[i].name)
               /\ outcome.agent_results[DictGet(outcome.agent_results, calls[i].name)].result.error
                    = "agent_not_found"

\* sequential plan [rv_expert, experiment_conductor] on a registry without
\* rv_expert: the conductor was still invoked after the absent agent
C13_Witness ==
    /\ t_pc = "returned"
    /\ PlanStrategy = "sequential"
    /\ PlanAgents = <<"rv_expert", "experiment_conductor">>
    /\ agents = {"experiment_conductor", "data_analyst"}
    /\ NotFoundCalls = {1}
    /\ calls[2].invoked /\ calls[2].st = "done"
    /\ outcome.strategy = "sequential"
    /\ outcome.agent_results[DictGet(outcome.agent_results, "rv_expert")].result.error = "agent_not_found"

\* ---------------------------------------------------------------------------
\* a step type without a handler

KnownStepTypes ==
    {"target_generation", "participant_guidance", "data_capture", "ai_scoring", "blockchain_commit"}

\* the loop is about to run a step that has a stepType no handler matches
UnknownStepAtCursor ==
    /\ wf_pc = "loop"
    /\ cursor <= Len(workflow_steps)
    /\ WellFormed(workflow_steps[cursor])
    /\ workflow_steps[cursor].stepType \notin KnownStepTypes \cup {Absent}

\* C14: the iteration that runs a step of an unknown type appends a success
\* entry whose result has status skipped, raises nothing, leaves
\* collected_data as it was, counts the step in steps_completed, and goes on
\* to the next step (or, after the last step, returns a completed run).
C14_UnknownStepSkipped ==
    [][UnknownStepAtCursor
       => /\ Len(execution_log') = Len(execution_log) + 1
          /\ SubSeq(execution_log', 1, Len(execution_log)) = execution_log
          /\ LET e == execution_log'[Len(execution_log')]
             IN /\ IsSuccessEntry(e)
                /\ e.result.status = "skipped"
                /\ e.step_name = workflow_steps[cursor].name
                /\ e.step_order = workflow_steps[cursor].order
                /\ e.step_type = workflow_steps[cursor].stepType
          /\ collected_data' = collected_data
          /\ handler_calls' = handler_calls
          /\ current_step' = current_step + 1
          /\ cursor' = cursor + 1
          /\ wf_pc' = IF cursor < Len(workflow_steps) THEN "loop" ELSE "returned"
          /\ wf_pc' = "returned"
             => /\ wf_result'.status = "completed"
                /\ wf_result'.steps_completed = Len(workflow_steps)
                /\ wf_result'.collected_data = collected_data]_vars

\* a run whose first step has an unknown type and whose second step ran
\* after it: two steps counted, the second step's output merged
C14_Witness ==
    /\ wf_pc = "returned"
    /\ Len(workflow_steps) = 2
    /\ workflow_steps[1].stepType = "unknown_x"
    /\ workflow_steps[2].stepType = "ai_scoring" /\ WellFormed(workflow_steps[2])
    /\ Len(execution_log) = 2
    /\ execution_log[1].result.status = "skipped"
    /\ IsSuccessEntry(execution_log[2])
    /\ handler_calls = <<2>>
    /\ wf_result.status = "completed"
    /\ wf_result.steps_completed = 2
    /\ collected_data["score"] = "0.75"

\* ---------------------------------------------------------------------------
\* the join of the parallel strategy

\* C15 as stated: under the parallel strategy, at the moment execute_task
\* has returned no agent invocation is still running (refuted: gather hands
\* the first fault to execute_task at once and leaves the sibling coroutines
\* running).
C15_Original_JoinBarrier ==
    (t_pc = "returned" /\ PlanStrategy = "parallel") => RunningCalls = {}

\* ---------------------------------------------------------------------------
\* which handles _call_agent reaches

\* C16 as stated: every invocation made for a name the registry holds
\* invokes that agent's handle, with the sub-task the routing map assigns to
\* the name or with the original task (refuted: only the handle of
\* experiment_conductor is ever invoked).
C16_Original_RegisteredHandleInvoked ==
    \A i \in 1..Len(calls) :
      calls[i].name \in agents
      => /\ calls[i].invoked
         /\ calls[i].task = AgentTask(routing_plan, calls[i].name, task)

\* ---------------------------------------------------------------------------
\* the single strategy

\* C17: under the single strategy exactly one _call_agent invocation is made,
\* for the first name of the plan, with the sub-task the routing map holds
\* for that name or else the original task, and with the caller's context;
\* a task that returns without a fault reports that one agent's result only.
C17_SingleInvocation ==
    (PlanStrategy = "single" /\ t_pc \notin {"idle", "routing"})
    => /\ Len(calls) = 1
       /\ PlanAgents # <<>> => calls[1].name = PlanAgents[1]
       /\ calls[1].task = IF routing_plan.routing[calls[1].name] # Absent
                            THEN routing_plan.routing[calls[1].name]
                            ELSE task
       /\ calls[1].context = context
       /\ (t_pc = "returned" /\ outcome.strategy # "error")
          => /\ Len(outcome.agent_results) = 1
             /\ outcome.agent_results[1].name = calls[1].name
             /\ outcome.agent_results[1].result = calls[1].result

\* a single plan that lists three names: only the first, data_analyst, was
\* invoked, with its routed sub-task
C17_Witness ==
    /\ t_pc = "returned"
    /\ PlanStrategy = "single"
    /\ PlanAgents = <<"data_analyst", "experiment_conductor", "rv_expert">>
    /\ Len(calls) = 1
    /\ calls[1].name = "data_analyst"
    /\ calls[1].task = "sub-task for data_analyst"
    /\ outcome.strategy = "single"
    /\ Len(outcome.agent_results) = 1

\* ---------------------------------------------------------------------------
\* collected_data

\* the logged steps whose result carries a value for key k in its output_data
\* (an error entry has no result and carries none)
Writers(k) == { i \in 1..Len(execution_log) : execution_log[i].result.output_data[k] # Absent }

\* the last of them
LastWriter(k) == CHOOSE i \in Writers(k) : \A j \in Writers(k) : j <= i

\* C18: throughout a workflow run and in the result it returns,
\* collected_data is the caller's initial data overlaid in step order with
\* the output_data of the steps that returned: each key holds the value of
\* the last step that output it, or else the caller's initial value; no key
\* is removed, and a step without output_data changes nothing.
C18_CollectedDataMerge ==
    /\ wf_pc # "idle"
       => \A k \in DataKeys :
            collected_data[k] = IF Writers(k) = {}
                                  THEN initial_snapshot[k]
                                  ELSE execution_log[LastWriter(k)].result.output_data[k]
    /\ wf_pc = "returned"
       => /\ wf_result.collected_data = collected_data
          /\ wf_result.collected_data
               = MergeOutputs(initial_snapshot, execution_log, Len(execution_log))
          /\ \A k \in DataKeys :
               initial_snapshot[k] # Absent => wf_result.collected_data[k] # Absent

\* target generation, data capture (no output_data), target generation
\* again: the second hash overwrote the first, which had overwritten the
\* caller's, and the caller's session_id is still there
C18_Witness ==
    /\ wf_pc = "returned"
    /\ Len(execution_log) = 3
    /\ \A i \in 1..3 : IsSuccessEntry(execution_log[i])
    /\ workflow_steps[2].stepType = "data_capture"
    /\ initial_snapshot["target_hash"] = "caller_hash"
    /\ execution_log[1].result.output_data["target_hash"] = "mock_hash_t1"
    /\ execution_log[3].result.output_data["target_hash"] = "mock_hash_t2"
    /\ wf_result.status = "completed"
    /\ wf_result.collected_data["target_hash"] = "mock_hash_t2"
    /\ wf_result.collected_data["session_id"] = "s1"

\* ---------------------------------------------------------------------------
\* the execution log

\* the steps the loop has attempted so far carry order and name
AttemptedWellFormed ==
    \A i \in 1..(cursor - 1) : i <= Len(workflow_steps) => WellFormed(workflow_steps[i])

\* what the log is at one point of a run
LogShape ==
    (wf_pc # "idle" /\ AttemptedWellFormed)
    => /\ Len(execution_log) = cursor - 1
       /\ Len(execution_log) <= Len(workflow_steps)
       /\ \A i \in 1..Len(execution_log) :
            /\ execution_log[i].step_name = workflow_steps[i].name
            /\ execution_log[i].step_order = workflow_steps[i].order
            /\ IsSuccessEntry(execution_log[i]) \/ IsErrorEntry(execution_log[i])
            /\ IsSuccessEntry(execution_log[i])
               => execution_log[i].step_type = workflow_steps[i].stepType
            /\ IsErrorEntry(execution_log[i]) => i = Len(execution_log)
       /\ \A j \in 1..Len(handler_calls) : handler_calls[j] <= Len(execution_log)
       /\ wf_pc = "returned" => wf_result.execution_log = execution_log

\* how one step of a run changes the log
LogAppended ==
    wf_pc # "idle"
    => /\ Len(execution_log') \in {Len(execution_log), Len(execution_log) + 1}
       /\ SubSeq(execution_log', 1, Len(execution_log)) = execution_log

\* C19: at every point of a run over steps that carry order and name, the
\* log has one entry per attempted step, entry i being the entry of step i
\* of the supplied list (no step unlogged, none skipped, none logged without
\* its attempt); only the last entry can be an error entry; and the log
\* changes only by appending one entry.
C19_LogAppendOnly == [](LogShape) /\ [][LogAppended]_vars

\* a returned run of three steps: two success entries, then the error entry
\* of a step without stepType
C19_Witness ==
    /\ wf_pc = "returned"
    /\ Len(workflow_steps) = 3
    /\ Len(execution_log) = 3
    /\ IsSuccessEntry(execution_log[1])
    /\ IsSuccessEntry(execution_log[2])
    /\ IsErrorEntry(execution_log[3])
    /\ workflow_steps[3].stepType = Absent
    /\ workflow_steps[1] # workflow_steps[2]

\* ---------------------------------------------------------------------------
\* what the error outcome tells the caller

\* str(e) of the faults execute_task can catch
FaultMessages ==
    {"routing backend fault", "agent handle fault", "synthesis backend fault",
     "the JSON object must be str, not NoneType",
     "object has no attribute 'get'", "list index out of range"}

\* C20 as stated: the outcome execute_task returns on a fault carries no
\* fault detail, so that runs failing with different fault messages return
\* the same object (refuted: the outcome's error field is the message of the
\* fault).
C20_Original_NoFaultDetail ==
    (t_pc = "returned" /\ outcome.strategy = "error")
    => \A k \in {"response", "error", "strategy"} : outcome[k] \notin FaultMessages

\* ---------------------------------------------------------------------------
\* the fields of a returned outcome

\* the fields of a CoordinationOutcome, by the keys lines 218-225 give them
OutcomeFields == {"response", "strategy", "agents_used", "agent_results", "duration_ms"}

\* C21 as stated: every outcome execute_task returns, the one of a fault
\* included, carries response, strategy, agents used, per-agent results and
\* duration (refuted: the outcome of a fault has response, error and
\* strategy only).
C21_Original_WellFormedOutcome ==
    t_pc = "returned" => OutcomeFields \subseteq outcome.keys

\* ---------------------------------------------------------------------------
\* how a workflow run ends

\* C22 as stated (its safety part): no fault met while running or logging a
\* step leaves execute_workflow; a run that has ended has returned a result
\* object whose status is completed when every step was passed and failed
\* when a step raised (refuted: a step without order or name makes the
\* except clause itself raise KeyError, which reaches the caller).
C22_Original_AlwaysReturnsResult ==
    /\ wf_pc # "propagated"
    /\ wf_pc = "returned"
       => /\ wf_result # NoRunResult
          /\ wf_result.status \in {"completed", "failed"}
          /\ wf_result.status = "completed" <=> current_step = Len(workflow_steps)

\* ---------------------------------------------------------------------------
\* the order field

\* C23 as stated: the step_order values of the execution log never decrease,
\* wherever the steps stand in the supplied list (refuted: the loop runs the
\* list as it is given and never reads order to decide what runs next).
C23_Original_OrderFieldOrder ==
    \A i, j \in 1..Len(execution_log) :
      i < j => execution_log[i].step_order <= execution_log[j].step_order

\* ---------------------------------------------------------------------------
\* agent_results and the invocations made

\* C24 as stated: a task that returns without a fault reports one
\* AgentResult per invocation made, and a synthesis request was made exactly
\* when more than one invocation was made (refuted: agent_results is keyed
\* by agent name, so the invocations of a name the plan repeats collapse
\* into one entry).
C24_Original_OneResultPerInvocation ==
    (t_pc = "returned" /\ outcome.strategy # "error")
    => /\ Len(outcome.agent_results) = Len(calls)
       /\ SynthesisCalls # {} <=> Len(calls) > 1

\* ---------------------------------------------------------------------------
\* the caller's initial_data

\* C25 as stated: during and after a run the mapping the caller passed as
\* initial_data is as the caller passed it, and collected_data differs from
\* it only by the merged outputs of the logged steps (refuted: a non-empty
\* initial_data is used as collected_data itself, so every merge writes
\* into the caller's mapping).
C25_Original_InitialDataUntouched ==
    wf_pc # "idle"
    => /\ initial_data = initial_snapshot
       /\ collected_data = MergeOutputs(initial_snapshot, execution_log, Len(execution_log))

\* ---------------------------------------------------------------------------
\* agents_used

\* the keys of a result map, in its order
Keys(d) == [i \in 1..Len(d) |-> d[i].name]

\* C26 as stated: in a non-error outcome agents_used is the list of the
\* agents that were invoked, which is the list of the keys of agent_results
\* (refuted: agents_used is the plan's agent list as the router returned
\* it).
C26_Original_AgentsUsedAreInvoked ==
    (t_pc = "returned" /\ outcome.strategy # "error")
    => /\ outcome.agents_used = Keys(outcome.agent_results)
       /\ \A i \in 1..Len(outcome.agents_used) :
            \E j \in 1..Len(calls) : calls[j].name = outcome.agents_used[i]

\* ---------------------------------------------------------------------------
\* a strategy that cannot be executed

\* the router returned a plan whose strategy is none of the three
UnknownStrategyPlan ==
    /\ RouteReturned
    /\ routing_plan.is_object
    /\ StrategyOf(routing_plan) \notin {"single", "parallel", "sequential"}

\* C27: on a plan whose strategy is none of single, parallel, sequential,
\* execute_task invokes no agent, makes no synthesis request and returns the
\* error outcome with the apology; total_coordinations is not incremented.
C27_UnknownStrategy ==
    UnknownStrategyPlan
    => /\ t_pc = "returned"
       /\ calls = <<>>
       /\ SynthesisCalls = {}
       /\ Len(llm_calls) = 1
       /\ outcome.strategy = "error"
       /\ outcome.response = Apology
       /\ outcome.error = "list index out of range"
       /\ total_coordinations = 0

\* the plan {strategy: iterative, agents: [experiment_conductor, data_analyst]}
C27_Witness ==
    /\ t_pc = "returned"
    /\ routing_plan.is_object
    /\ routing_plan.strategy = "iterative"
    /\ PlanAgents = <<"experiment_conductor", "data_analyst">>
    /\ calls = <<>>
    /\ outcome.strategy = "error"
    /\ total_coordinations = 0

\* ---------------------------------------------------------------------------
\* a plan without agents

\* the router returned a plan whose agents list is empty
EmptyAgentsPlan == RouteReturned /\ routing_plan.is_object /\ PlanAgents = <<>>

\* C28: on a plan with an empty agents list, the single strategy makes
\* exactly one invocation, of experiment_conductor, and (unless the handle
\* raises) returns its response unchanged without synthesis; the parallel
\* and sequential strategies invoke no agent, make no synthesis request and
\* return the error outcome.
C28_EmptyAgents ==
    /\ (EmptyAgentsPlan /\ PlanStrategy = "single")
       => /\ Len(calls) = 1
          /\ calls[1].name = "experiment_conductor"
          /\ SynthesisCalls = {}
          /\ (t_pc = "returned" /\ RaisedCalls = {})
             => /\ outcome.strategy = "single"
                /\ outcome.response = calls[1].result.response
                /\ Keys(outcome.agent_results) = <<"experiment_conductor">>
    /\ (EmptyAgentsPlan /\ PlanStrategy \in {"parallel", "sequential"})
       => /\ t_pc = "returned"
          /\ calls = <<>>
          /\ SynthesisCalls = {}
          /\ outcome.strategy = "error"
          /\ outcome.response = Apology

\* {strategy: single, agents: []}: the conductor answered and its answer is
\* the task's response
C28_Witness ==
    /\ t_pc = "returned"
    /\ EmptyAgentsPlan
    /\ routing_plan.strategy = "single"
    /\ Len(calls) = 1
    /\ calls[1].name = "experiment_conductor"
    /\ calls[1].invoked
    /\ outcome.response = "conductor answer"

\* ---------------------------------------------------------------------------
\* total_coordinations over several calls

\* the calls that have returned a non-error outcome
SuccessfulCalls ==
    { c \in CallIds : runs[c].X.pc = "returned" /\ runs[c].X.outcome.strategy # "error" }

\* C29: at every point of every interleaving of the calls of execute_task
\* with one another and with a workflow run, total_coordinations is the
\* number of calls that have returned a non-error outcome: such a return
\* adds exactly one (no update is lost), and nothing else changes the
\* counter (not a call that returns the error outcome, not route_task, not
\* execute_workflow).
C29_CounterExact ==
    /\ total_coordinations = Cardinality(SuccessfulCalls)
    /\ \A c \in CallIds : runs[c].X.total <= total_coordinations

\* call_b suspended in its synthesis request when the counter was 0, and
\* call_a has since returned a non-error outcome and counted itself
C29_Witness ==
    /\ total_coordinations = 1
    /\ SuccessfulCalls = {"call_a"}
    /\ runs["call_b"].X.pc = "synth"
    /\ runs["call_b"].X.total = 0
    /\ wf_pc = "returned"

\* ---------------------------------------------------------------------------
\* a guidance step for an agent the registry does not hold

\* step i is a guidance step that names an agent absent from the registry
GhostGuidanceAt(i) ==
    /\ workflow_steps[i].stepType = "participant_guidance"
    /\ workflow_steps[i].agentId \notin agents \cup {Absent}

\* step i is a guidance step without agentId
DefaultGuidanceAt(i) ==
    /\ workflow_steps[i].stepType = "participant_guidance"
    /\ workflow_steps[i].agentId = Absent

\* C30: in a run over steps that carry order and name, a guidance step whose
\* agentId the registry does not hold is logged as a success entry with
\* status agent_not_found and no output_data, is counted, leaves
\* collected_data as it was, and does not end the run (a run that ends on it
\* ends completed); a guidance step without agentId gets the result the
\* experiment_conductor gives.
C30_GuidanceAgentNotFound ==
    (wf_pc # "idle" /\ AttemptedWellFormed)
    => \A i \in 1..Len(execution_log) :
         /\ GhostGuidanceAt(i)
            => /\ IsSuccessEntry(execution_log[i])
               /\ execution_log[i].result = PlainResult("agent_not_found")
               /\ current_step >= i
               /\ \E j \in 1..Len(handler_calls) : handler_calls[j] = i
               /\ Len(execution_log) = i
                  => /\ collected_data = MergeOutputs(initial_snapshot, execution_log, i - 1)
                     /\ wf_pc \in {"loop", "returned"}
                     /\ wf_pc = "loop" <=> i < Len(workflow_steps)
                     /\ wf_pc = "returned"
                        => /\ wf_result.status = "completed"
                           /\ wf_result.steps_completed = i
         /\ DefaultGuidanceAt(i)
            => /\ IsSuccessEntry(execution_log[i])
               /\ execution_log[i].result.status = "completed"
               /\ execution_log[i].result
                    = _execute_guidance_step(workflow_steps[i], "experiment_conductor", agents,
                                             MergeOutputs(initial_snapshot, execution_log, i - 1)).result

\* a completed run of two steps: guidance by the unregistered "ghost", then
\* scoring
C30_Witness ==
    /\ wf_pc = "returned"
    /\ Len(workflow_steps) = 2
    /\ GhostGuidanceAt(1)
    /\ workflow_steps[2].stepType = "ai_scoring" /\ WellFormed(workflow_steps[2])
    /\ execution_log[1].result.status = "agent_not_found"
    /\ handler_calls = <<1, 2>>
    /\ wf_result.status = "completed"
    /\ wf_result.steps_completed = 2
    /\ wf_result.collected_data["message"] = Absent
    /\ wf_result.collected_data["score"] = "0.75"

====
